---- MODULE Spec2Model ----
(***************************************************************************)
(* A model of package httperror (johnwarden/httperror): error values that  *)
(* embed an HTTP status code, the extraction functions StatusCode and      *)
(* PublicMessage, the comparison errors.Is as the package's Is methods     *)
(* drive it, the default error response, and the panic middleware.         *)
(*                                                                         *)
(* An error value is its wrap chain: a sequence of nodes, outermost first. *)
(* The nil error is the empty sequence; Unwrap of a wrapping node is the   *)
(* tail of the sequence.                                                   *)
(***************************************************************************)
EXTENDS Integers, Sequences, FiniteSets, TLC

\* Longest wrap chain the constructors build.
MaxDepth == 3

\* net/http status codes the package names.
StatusOK == 200
StatusBadRequest == 400
StatusNotFound == 404
StatusInternalServerError == 500
StatusServiceUnavailable == 503

\* Status arguments handed to the constructors.
Statuses == {StatusBadRequest, StatusNotFound, StatusInternalServerError}

\* Private messages handed to New, Errorf and errors.New.
Messages == {"", "no such product ID"}

\* Public messages handed to NewPublic and PublicErrorf.
PublicMessages == {"", "missing 'name' parameter"}

\* Addresses of the *errorString values that errors.New and fmt.Errorf allocate.
Ptrs == {1, 2}

----------------------------------------------------------------------------
(* Error nodes.  kind is the node's dynamic Go type. *)
(* Every record of the module lists its fields in the order in which the  *)
(* field names first occur in the module: TLC keeps records in that order, *)
(* and a record built in another order is reordered in place while other   *)
(* workers may be reading it.                                              *)

nil == <<>>

Node(k, s, m, p, t) == [kind |-> k, status |-> s, msg |-> m, ptr |-> p, temp |-> t]

\* httpError{status}: the bare status value.
httpError(s) == <<Node("httpError", s, "", 0, FALSE)>>

\* *errors.errorString, as errors.New and fmt.Errorf return it: a pointer.
errorString(m, p) == <<Node("errorString", 0, m, p, FALSE)>>

\* A caller's error type with a Temporary() bool method (see net.Error).
netError(t, p) == <<Node("netError", 0, "i/o timeout", p, t)>>

\* A caller's error type with a PublicMessage() string method.
userPublic(m, p) == <<Node("userPublic", 0, m, p, FALSE)>>

\* A caller's error type that is not comparable (a slice of field errors).
validationErrors == <<Node("validationErrors", 0, "validation failed", 0, FALSE)>>

Top(e) == e[1]

\* The predefined status values (var BadRequest = httpError{...}, ...).
predefinedStatus(s) == httpError(s)

\* http.StatusText
StatusText(s) ==
    CASE s = StatusOK -> "OK"
      [] s = StatusBadRequest -> "Bad Request"
      [] s = StatusNotFound -> "Not Found"
      [] s = StatusInternalServerError -> "Internal Server Error"
      [] s = StatusServiceUnavailable -> "Service Unavailable"
      [] OTHER -> ""

\* strconv.Itoa
Itoa(n) == ToString(n)

----------------------------------------------------------------------------
(* fmt.Sprintf over the verbs %s, %v, %d and %%.  An argument is a tagged  *)
(* value: [t |-> "string", v |-> ...] or [t |-> "int", v |-> ...].         *)

StringArg(v) == [t |-> "string", v |-> v]
IntArg(v) == [t |-> "int", v |-> v]

\* The %v form of a value.
FormatValue(a) == IF a.t = "int" THEN Itoa(a.v) ELSE a.v

RECURSIVE Sprintf(_, _)
Sprintf(format, args) ==
    IF format = "" THEN ""
    ELSE LET c == SubSeq(format, 1, 1)
             rest == SubSeq(format, 2, Len(format))
         IN IF c # "%" THEN c \o Sprintf(rest, args)
            ELSE IF rest = "" THEN "%!(NOVERB)"
            ELSE LET verb == SubSeq(rest, 1, 1)
                     after == SubSeq(rest, 2, Len(rest))
                 IN IF verb = "%" THEN "%" \o Sprintf(after, args)
                    ELSE IF args = <<>>
                         THEN "%!" \o verb \o "(MISSING)" \o Sprintf(after, args)
                    ELSE LET a == Head(args)
                             good == \/ verb = "v"
                                     \/ verb = "s" /\ a.t = "string"
                                     \/ verb = "d" /\ a.t = "int"
                         IN (IF good THEN FormatValue(a)
                             ELSE "%!" \o verb \o "(" \o a.t \o "=" \o FormatValue(a) \o ")")
                            \o Sprintf(after, Tail(args))

\* fmt.Errorf without %w: a fresh *errorString at address p.
fmtErrorf(format, args, p) == errorString(Sprintf(format, args), p)

----------------------------------------------------------------------------
(* Error() *)

\* The text Error() returns.  A wrappedError whose inner error is nil
\* dereferences nil: the text is then the marker NilDereference.
NilDereference == "<nil pointer dereference>"

RECURSIVE ErrorText(_)
\* A faulty variant of ErrorText: wrappedError has no Error method of its
\* own, so that the one of the embedded httpError is promoted.
ErrorTextPromoted(e) ==
    IF e = nil THEN NilDereference
    ELSE LET n == Top(e)
             statusLine == Itoa(n.status) \o " " \o StatusText(n.status)
         IN CASE n.kind \in {"httpError", "wrappedError"} -> statusLine
              [] n.kind = "publicError" ->
                    IF n.msg # "" THEN statusLine \o ": " \o n.msg ELSE statusLine
              [] n.kind = "panicError" ->
                    IF Tail(e) # nil THEN "panic: " \o ErrorText(Tail(e))
                    ELSE "panic: " \o n.msg
              [] OTHER -> n.msg

ErrorText(e) ==
    IF e = nil THEN NilDereference
    ELSE LET n == Top(e)
             statusLine == Itoa(n.status) \o " " \o StatusText(n.status)
         IN CASE n.kind = "httpError" -> statusLine
              [] n.kind = "wrappedError" -> statusLine \o ": " \o ErrorText(Tail(e))
              [] n.kind = "publicError" ->
                    IF n.msg # "" THEN statusLine \o ": " \o n.msg ELSE statusLine
              [] n.kind = "panicError" ->
                    IF Tail(e) # nil THEN "panic: " \o ErrorText(Tail(e))
                    ELSE "panic: " \o n.msg
              [] OTHER -> n.msg

----------------------------------------------------------------------------
(* The constructors. *)

\* A faulty variant of Wrap: the cause is kept as text only.
WrapText(err, status) ==
    <<Node("wrappedError", status, "", 0, FALSE)>> \o errorString(ErrorText(err), 1)

Wrap(err, status) == <<Node("wrappedError", status, "", 0, FALSE)>> \o err

\* A faulty variant of New: an empty message is wrapped like any other.
NewAlwaysWraps(s, m, p) == Wrap(fmtErrorf(m, <<>>, p), s)

New(s, m, p) == IF m = "" THEN httpError(s) ELSE Wrap(fmtErrorf(m, <<>>, p), s)

Errorf(s, format, args, p) ==
    LET m == Sprintf(format, args)
    IN IF m = "" THEN httpError(s) ELSE Wrap(fmtErrorf(m, <<>>, p), s)

NewPublic(status, message) == <<Node("publicError", status, message, 0, FALSE)>>

PublicErrorf(status, format, args) ==
    <<Node("publicError", status, Sprintf(format, args), 0, FALSE)>>

----------------------------------------------------------------------------
(* Capabilities and chain traversal. *)

\* Whether a node's type has an Unwrap() error method.
HasUnwrap(n) == n.kind \in {"wrappedError", "panicError"}

\* errors.Unwrap: the inner error of a wrapping node, nil for any other node.
Unwrap(e) == IF e # nil /\ HasUnwrap(Top(e)) THEN Tail(e) ELSE nil

\* Whether a node's type implements the interface a capability names:
\* httpError (httpStatusCode() int), Public (PublicMessage() string), or
\* interface{ Temporary() bool }.
Implements(n, capability) ==
    CASE capability = "httpStatusCode" ->
            n.kind \in {"httpError", "wrappedError", "publicError"}
      [] capability = "PublicMessage" -> n.kind \in {"publicError", "userPublic"}
      [] capability = "Temporary" -> n.kind = "netError"
      [] OTHER -> FALSE

\* errors.As: the first error of the chain whose type implements the
\* capability, nil when there is none.
RECURSIVE ErrorsAs(_, _)
ErrorsAs(err, capability) ==
    IF err = nil THEN nil
    ELSE IF Implements(Top(err), capability) THEN err
    ELSE ErrorsAs(Unwrap(err), capability)

\* A faulty variant of StatusCode: the innermost status of the chain wins.
RECURSIVE StatusCodeInnermost(_)
StatusCodeInnermost(err) ==
    IF err = nil THEN StatusOK
    ELSE LET found == ErrorsAs(err, "httpStatusCode")
         IN IF found = nil THEN StatusInternalServerError
            ELSE IF ErrorsAs(Unwrap(found), "httpStatusCode") = nil
                 THEN Top(found).status
            ELSE StatusCodeInnermost(Unwrap(found))

\* A faulty variant of StatusCode: a nil error is reported as a server error.
StatusCodeNilIs500(err) ==
    LET found == ErrorsAs(err, "httpStatusCode")
    IN IF found # nil THEN Top(found).status ELSE StatusInternalServerError

\* A faulty variant of StatusCode: the Temporary() method is looked for
\* before the status value.
StatusCodeTemporaryFirst(err) ==
    IF err = nil THEN StatusOK
    ELSE LET httpErr == ErrorsAs(err, "httpStatusCode")
             temporaryErr == ErrorsAs(err, "Temporary")
         IN IF temporaryErr # nil /\ Top(temporaryErr).temp
            THEN StatusServiceUnavailable
            ELSE IF httpErr # nil THEN Top(httpErr).status
            ELSE StatusInternalServerError

StatusCode(err) ==
    IF err = nil THEN StatusOK
    ELSE LET httpErr == ErrorsAs(err, "httpStatusCode")
             temporaryErr == ErrorsAs(err, "Temporary")
         IN IF httpErr # nil THEN Top(httpErr).status
            ELSE IF temporaryErr # nil /\ Top(temporaryErr).temp
                 THEN StatusServiceUnavailable
            ELSE StatusInternalServerError

\* A faulty variant of PublicMessage: without a public node, the text of
\* the innermost error is returned.
PublicMessageFallsBack(err) ==
    IF err = nil THEN ""
    ELSE LET publicErr == ErrorsAs(err, "PublicMessage")
         IN IF publicErr # nil THEN Top(publicErr).msg ELSE err[Len(err)].msg

\* A faulty variant of PublicMessage: only the outermost error is asked
\* for a public message.
PublicMessageTopOnly(err) ==
    IF err = nil THEN ""
    ELSE IF Implements(Top(err), "PublicMessage") THEN Top(err).msg ELSE ""

PublicMessage(err) ==
    IF err = nil THEN ""
    ELSE LET publicErr == ErrorsAs(err, "PublicMessage")
         IN IF publicErr # nil THEN Top(publicErr).msg ELSE ""

----------------------------------------------------------------------------
(* Comparison.  Go's == on two error values and errors.Is have three      *)
(* outcomes: "true", "false", and "panic" (the run-time panic of comparing *)
(* two values of one uncomparable dynamic type).                           *)

Bool(b) == IF b THEN "true" ELSE "false"

\* reflect's Comparable() of a node's type.
Comparable(n) == n.kind # "validationErrors"

\* Go's == on two error values: equal dynamic types and equal values.  A
\* struct's fields are compared in source order, up to the first that
\* differs: wrappedError{inner, httpError}, panicError{innerError, message},
\* publicError{message, httpError}.  Pointers compare by address.
RECURSIVE GoEqual(_, _)
\* A faulty variant of GoEqual: a value of an uncomparable type on the left
\* panics whatever the type on the right.
GoEqualUntyped(a, b) ==
    IF a = nil \/ b = nil THEN Bool(a = b)
    ELSE IF ~Comparable(Top(a)) THEN "panic"
    ELSE IF Top(a).kind # Top(b).kind THEN "false"
    ELSE LET x == Top(a)
             y == Top(b)
         IN CASE x.kind = "httpError" -> Bool(x.status = y.status)
              [] x.kind = "publicError" -> Bool(x.msg = y.msg /\ x.status = y.status)
              [] x.kind = "wrappedError" ->
                    LET inner == GoEqual(Tail(a), Tail(b))
                    IN IF inner # "true" THEN inner ELSE Bool(x.status = y.status)
              [] x.kind = "panicError" ->
                    LET inner == GoEqual(Tail(a), Tail(b))
                    IN IF inner # "true" THEN inner ELSE Bool(x.msg = y.msg)
              [] OTHER -> Bool(x.ptr = y.ptr)

GoEqual(a, b) ==
    IF a = nil \/ b = nil THEN Bool(a = b)
    ELSE IF Top(a).kind # Top(b).kind THEN "false"
    ELSE IF ~Comparable(Top(a)) THEN "panic"
    ELSE LET x == Top(a)
             y == Top(b)
         IN CASE x.kind = "httpError" -> Bool(x.status = y.status)
              [] x.kind = "publicError" -> Bool(x.msg = y.msg /\ x.status = y.status)
              [] x.kind = "wrappedError" ->
                    LET inner == GoEqual(Tail(a), Tail(b))
                    IN IF inner # "true" THEN inner ELSE Bool(x.status = y.status)
              [] x.kind = "panicError" ->
                    LET inner == GoEqual(Tail(a), Tail(b))
                    IN IF inner # "true" THEN inner ELSE Bool(x.msg = y.msg)
              [] OTHER -> Bool(x.ptr = y.ptr)

\* var Panic = panicError{}
Panic == <<Node("panicError", 0, "", 0, FALSE)>>

\* panicError{innerError, message}
panicError(innerError, message) == <<Node("panicError", 0, message, 0, FALSE)>> \o innerError

\* A faulty variant of httpErrorIs: any target that carries the status matches.
httpErrorIsAnyCarrier(e, target) ==
    Bool(Implements(Top(target), "httpStatusCode") /\ Top(e).status = Top(target).status)

\* A faulty variant of httpErrorIs: the status codes are not compared.
httpErrorIsAnyStatus(e, target) == Bool(Top(target).kind = "httpError")

\* A faulty variant of httpErrorIs: the receiver and the target are compared
\* as values, as errors.Is does for a type without an Is method.
httpErrorIsSameValue(e, target) == GoEqual(e, target)

\* httpError.Is, promoted to wrappedError and publicError by embedding: the
\* target is itself a bare httpError with the receiver's status.
httpErrorIs(e, target) ==
    Bool(Top(target).kind = "httpError" /\ Top(e).status = Top(target).status)

RECURSIVE ErrorsIs3(_, _)

\* panicError.Is
panicErrorIs(e, other) ==
    IF GoEqual(other, Panic) = "true" THEN "true" ELSE ErrorsIs3(Tail(e), other)

\* The Is(error) bool method of the error's type: "none" when it has none.
IsMethod(err, target) ==
    CASE Top(err).kind \in {"httpError", "wrappedError", "publicError"} ->
            httpErrorIs(err, target)
      [] Top(err).kind = "panicError" -> panicErrorIs(err, target)
      [] OTHER -> "none"

\* errors.Is, three-valued.
ErrorsIs3(err, target) ==
    IF err = nil \/ target = nil THEN Bool(err = target)
    ELSE LET equal == IF Comparable(Top(target)) THEN GoEqual(err, target) ELSE "false"
         IN IF equal # "false" THEN equal
            ELSE LET matched == IsMethod(err, target)
                 IN IF matched \in {"true", "panic"} THEN matched
                    ELSE IF HasUnwrap(Top(err)) /\ Tail(err) # nil
                         THEN ErrorsIs3(Tail(err), target)
                    ELSE "false"

\* errors.Is returned true.
ErrorsIs(err, target) == ErrorsIs3(err, target) = "true"

----------------------------------------------------------------------------
(* The response writer: httptest.ResponseRecorder as the tests use it.     *)
(* contentType is w.Header()["Content-Type"], empty when the header is not *)
(* set; code is the recorded status; body the bytes written; calls the     *)
(* WriteHeader and Write calls made on it, in order, each as               *)
(* <<method, status, bytes>>.                                              *)

NewRecorder ==
    [contentType |-> <<>>, wroteHeader |-> FALSE, code |-> StatusOK, body |-> "", calls |-> <<>>]

\* w.Header().Set("Content-Type", v)
SetContentType(w, v) == [w EXCEPT !.contentType = <<v>>]

\* w.WriteHeader: the first call decides the status.
WriteHeader(w, code) ==
    LET called == [w EXCEPT !.calls = Append(@, <<"WriteHeader", code, "">>)]
    IN IF w.wroteHeader THEN called ELSE [called EXCEPT !.code = code, !.wroteHeader = TRUE]

\* w.Write: an implicit WriteHeader(200) on the first write.
Write(w, bytes) ==
    [w EXCEPT !.code = IF w.wroteHeader THEN @ ELSE StatusOK,
              !.wroteHeader = TRUE,
              !.body = @ \o bytes,
              !.calls = Append(@, <<"Write", 0, bytes>>)]

\* strings.ToLower over ASCII.
UpperCase == "ABCDEFGHIJKLMNOPQRSTUVWXYZ"
LowerCase == "abcdefghijklmnopqrstuvwxyz"

LowerChar(c) ==
    IF \E i \in 1..Len(UpperCase) : SubSeq(UpperCase, i, i) = c
    THEN LET i == CHOOSE i \in 1..Len(UpperCase) : SubSeq(UpperCase, i, i) = c
         IN SubSeq(LowerCase, i, i)
    ELSE c

RECURSIVE ToLower(_)
ToLower(str) ==
    IF str = "" THEN "" ELSE LowerChar(SubSeq(str, 1, 1)) \o ToLower(SubSeq(str, 2, Len(str)))

\* strings.TrimSpace over spaces and tabs.
RECURSIVE TrimLeft(_)
TrimLeft(str) ==
    IF str # "" /\ SubSeq(str, 1, 1) \in {" ", "\t"}
    THEN TrimLeft(SubSeq(str, 2, Len(str))) ELSE str

RECURSIVE TrimRight(_)
TrimRight(str) ==
    IF str # "" /\ SubSeq(str, Len(str), Len(str)) \in {" ", "\t"}
    THEN TrimRight(SubSeq(str, 1, Len(str) - 1)) ELSE str

TrimSpace(str) == TrimRight(TrimLeft(str))

\* The text before the first occurrence of a separator character.
RECURSIVE Before(_, _)
Before(str, sep) ==
    IF str = "" \/ SubSeq(str, 1, 1) = sep THEN ""
    ELSE SubSeq(str, 1, 1) \o Before(SubSeq(str, 2, Len(str)), sep)

\* The text after the first occurrence of a separator character.
After(str, sep) == SubSeq(str, Len(Before(str, sep)) + 2, Len(str))

Contains(str, c) == \E i \in 1..Len(str) : SubSeq(str, i, i) = c

\* An RFC 2616 token: one or more characters, none of them a separator.
TSpecials == {" ", "\t", "(", ")", "<", ">", "@", ",", ";", ":", "\\", "\"", "/", "[", "]", "?", "="}

IsToken(str) == str # "" /\ \A i \in 1..Len(str) : SubSeq(str, i, i) \notin TSpecials

\* mime's consumeToken: the longest prefix of token characters, and the rest.
RECURSIVE TokenLen(_)
TokenLen(str) ==
    IF str = "" \/ SubSeq(str, 1, 1) \in TSpecials THEN 0
    ELSE 1 + TokenLen(SubSeq(str, 2, Len(str)))

consumeToken(v) == <<SubSeq(v, 1, TokenLen(v)), SubSeq(v, TokenLen(v) + 1, Len(v))>>

\* mime's consumeValue, for a quoted string: the text up to the closing
\* quote, a backslash before a separator dropped; <<"", v>> without one.
RECURSIVE consumeQuoted(_, _, _)
consumeQuoted(v, i, buffer) ==
    IF i > Len(v) THEN <<"", v>>
    ELSE LET r == SubSeq(v, i, i)
             next == SubSeq(v, i + 1, i + 1)
         IN CASE r = "\"" -> <<buffer, SubSeq(v, i + 1, Len(v))>>
              [] r = "\\" /\ i + 1 <= Len(v) /\ next \in TSpecials \ {" ", "\t"} ->
                    consumeQuoted(v, i + 2, buffer \o next)
              [] r \in {"\r", "\n"} -> <<"", v>>
              [] OTHER -> consumeQuoted(v, i + 1, buffer \o r)

consumeValue(v) ==
    IF v = "" THEN <<"", "">>
    ELSE IF SubSeq(v, 1, 1) # "\"" THEN consumeToken(v)
    ELSE consumeQuoted(v, 2, "")

\* mime's consumeMediaParam: <<param, value, rest>>, <<"", "", v>> when v
\* does not start with "; name=value".
consumeMediaParam(v) ==
    LET r1 == TrimLeft(v)
        r2 == TrimLeft(SubSeq(r1, 2, Len(r1)))
        tok == consumeToken(r2)
        param == ToLower(tok[1])
        r3 == TrimLeft(tok[2])
        r4 == TrimLeft(SubSeq(r3, 2, Len(r3)))
        val == consumeValue(r4)
    IN IF r1 = "" \/ SubSeq(r1, 1, 1) # ";" THEN <<"", "", v>>
       ELSE IF param = "" THEN <<"", "", v>>
       ELSE IF r3 = "" \/ SubSeq(r3, 1, 1) # "=" THEN <<"", "", v>>
       ELSE IF val[1] = "" /\ val[2] = r4 THEN <<"", "", v>>
       ELSE <<param, val[1], val[2]>>

\* The parameter loop of mime.ParseMediaType over the text after the media
\* type, params being the <<name, value>> pairs read so far: "ok",
\* "invalid" (ErrInvalidMediaParameter) or "duplicate" (a name given twice
\* with different values).
RECURSIVE ParseParams(_, _)
ParseParams(v, params) ==
    LET v1 == TrimLeft(v)
        p == consumeMediaParam(v1)
    IN IF v1 = "" THEN "ok"
       ELSE IF p[1] = "" THEN (IF TrimSpace(p[3]) = ";" THEN "ok" ELSE "invalid")
       ELSE IF \E i \in 1..Len(params) : params[i][1] = p[1] /\ params[i][2] # p[2]
            THEN "duplicate"
       ELSE ParseParams(p[3], Append(params, <<p[1], p[2]>>))

\* mime.ParseMediaType, its first result: the lower-cased, trimmed text
\* before the parameters when that is "type" or "type/subtype", else "".  An
\* invalid parameter keeps the media type; a duplicate parameter loses it.
ParseMediaType(v) ==
    LET base == Before(v, ";")
        mediatype == TrimSpace(ToLower(base))
        valid == IF Contains(mediatype, "/")
                 THEN IsToken(Before(mediatype, "/")) /\ IsToken(After(mediatype, "/"))
                 ELSE IsToken(mediatype)
    IN IF ~valid THEN ""
       ELSE IF ParseParams(SubSeq(v, Len(base) + 1, Len(v)), <<>>) = "duplicate" THEN ""
       ELSE mediatype

contentTypeTextPlain == "text/plain"
contentTypeText == "text"
contentTypeJSON == "application/json"

responseContentType(w) ==
    IF w.contentType # <<>> THEN ParseMediaType(w.contentType[1]) ELSE ""

writeHtmlErrorBody(w, s, m) ==
    LET w1 == Write(w, "<html><head><meta http-equiv=\"Content-Type\" content=\"text/html; charset=UTF-8\"><title>")
        w2 == Write(w1, "Error ")
        w3 == Write(w2, Itoa(s))
        w4 == Write(w3, "</title></head><body>")
        w5 == Write(w4, m)
    IN Write(w5, "</body></html>\n")

writePlainTextErrorBody(w, s, m) ==
    Write(Write(Write(Write(w, Itoa(s)), " "), m), "\n")

\* encoding/json's encoding of one character of a string.
JsonChar(c) ==
    CASE c = "\"" -> "\\\""
      [] c = "\\" -> "\\\\"
      [] c = "\n" -> "\\n"
      [] c = "\r" -> "\\r"
      [] c = "\t" -> "\\t"
      [] c = "<" -> "\\u003c"
      [] c = ">" -> "\\u003e"
      [] c = "&" -> "\\u0026"
      [] OTHER -> c

RECURSIVE JsonEscape(_)
JsonEscape(str) ==
    IF str = "" THEN "" ELSE JsonChar(SubSeq(str, 1, 1)) \o JsonEscape(SubSeq(str, 2, Len(str)))

\* json.Marshal(jsonhttperror{Status, Message, Code}); Message and Code are
\* tagged omitempty.
MarshalJsonError(status, message, code) ==
    "{\"status\":\"" \o JsonEscape(status) \o "\""
    \o (IF message # "" THEN ",\"message\":\"" \o JsonEscape(message) \o "\"" ELSE "")
    \o (IF code # 0 THEN ",\"code\":" \o Itoa(code) ELSE "")
    \o "}"

writeJsonErrorBody(w, s, m) ==
    Write(Write(w, MarshalJsonError("error", m, s)), "\n")

\* A faulty variant of WriteResponse: the whole header value is compared,
\* parameters included.
WriteResponseWholeHeader(w, s, m) ==
    LET contentType == IF w.contentType # <<>> THEN w.contentType[1] ELSE ""
    IN CASE contentType = contentTypeJSON -> writeJsonErrorBody(w, s, m)
         [] contentType = contentTypeTextPlain -> writePlainTextErrorBody(w, s, m)
         [] contentType = contentTypeText -> writePlainTextErrorBody(w, s, m)
         [] OTHER -> writeHtmlErrorBody(w, s, m)

WriteResponse(w, s, m) ==
    LET contentType == responseContentType(w)
    IN CASE contentType = contentTypeJSON -> writeJsonErrorBody(w, s, m)
         [] contentType = contentTypeTextPlain -> writePlainTextErrorBody(w, s, m)
         [] contentType = contentTypeText -> writePlainTextErrorBody(w, s, m)
         [] OTHER -> writeHtmlErrorBody(w, s, m)

\* A faulty variant of DefaultErrorHandler: the body carries the error's own text.
DefaultErrorHandlerLeaks(w, e) ==
    LET s == StatusCode(e)
    IN WriteResponse(WriteHeader(w, s), s, ErrorText(e))

\* A faulty variant of DefaultErrorHandler: the body is written before the
\* status is set.
DefaultErrorHandlerBodyFirst(w, e) ==
    LET s == StatusCode(e)
        pm == PublicMessage(e)
        b == StatusText(s) \o (IF pm # "" THEN ": " \o pm ELSE "")
    IN WriteHeader(WriteResponse(w, s, b), s)

\* A faulty variant of DefaultErrorHandler: a public message replaces the
\* status text instead of following it.
DefaultErrorHandlerPublicOnly(w, e) ==
    LET s == StatusCode(e)
        pm == PublicMessage(e)
    IN WriteResponse(WriteHeader(w, s), s, IF pm # "" THEN pm ELSE StatusText(s))

\* A faulty variant of DefaultErrorHandler: the public message is left out.
DefaultErrorHandlerStatusOnly(w, e) ==
    LET s == StatusCode(e)
    IN WriteResponse(WriteHeader(w, s), s, StatusText(s))

DefaultErrorHandler(w, e) ==
    LET s == StatusCode(e)
        w1 == WriteHeader(w, s)
        pm == PublicMessage(e)
        b == StatusText(s) \o (IF pm # "" THEN ": " \o pm ELSE "")
    IN WriteResponse(w1, s, b)

----------------------------------------------------------------------------
(* Handlers.  The outcome of calling a handler is the response writer as   *)
(* the call left it, the error it returned, and whether it panicked (and   *)
(* with which value) instead of returning.                                 *)

Outcome(w, e, p, v) == [err |-> e, w |-> w, panicked |-> p, value |-> v]

NoValue == [t |-> "none", v |-> ""]
ErrorValue(e) == [t |-> "error", v |-> e]

\* The handlers of the tests: each sets a content type (or none) and then
\*   "ok"      writes 200 and "OK\n" and returns nil          (okHandler),
\*   "return"  returns the error it is given                    (notFoundHandler),
\*   "write"   writes "partial\n" and returns the error it is given,
\*   "panic"   panics with the value it is given         (getMeOuttaHere, fail).
Handler(ct, does, e, v) == [err |-> e, contentType |-> ct, value |-> v, does |-> does]

\* h.Serve(w, r)
Serve(h, w) ==
    LET w1 == IF h.contentType # <<>> THEN SetContentType(w, h.contentType[1]) ELSE w
    IN CASE h.does = "ok" -> Outcome(Write(WriteHeader(w1, StatusOK), "OK\n"), nil, FALSE, NoValue)
         [] h.does = "return" -> Outcome(w1, h.err, FALSE, NoValue)
         [] h.does = "write" -> Outcome(Write(w1, "partial\n"), h.err, FALSE, NoValue)
         [] OTHER -> Outcome(w1, nil, TRUE, h.value)

\* A faulty variant of PanicMiddleware: the recovered value becomes a plain
\* error, without the panicError node.
PanicMiddlewarePlain(out) ==
    IF out.panicked
    THEN IF out.value.t = "error" THEN Outcome(out.w, out.value.v, FALSE, NoValue)
         ELSE Outcome(out.w, errorString(Sprintf("%v", <<out.value>>), 1), FALSE, NoValue)
    ELSE out

\* A faulty variant of PanicMiddleware: the recovered error is stringified
\* into the message instead of being kept as the inner error.
PanicMiddlewareDropsCause(out) ==
    IF out.panicked
    THEN IF out.value.t = "error"
         THEN Outcome(out.w, panicError(nil, ErrorText(out.value.v)), FALSE, NoValue)
         ELSE Outcome(out.w, panicError(nil, Sprintf("%v", <<out.value>>)), FALSE, NoValue)
    ELSE out

\* A faulty variant of PanicMiddleware: the recovery answers on a fresh
\* response writer, losing the headers the handler set.
PanicMiddlewareFreshWriter(out) ==
    IF out.panicked
    THEN IF out.value.t = "error"
         THEN Outcome(NewRecorder, panicError(out.value.v, ""), FALSE, NoValue)
         ELSE Outcome(NewRecorder, panicError(nil, Sprintf("%v", <<out.value>>)), FALSE, NoValue)
    ELSE out

\* A faulty variant of PanicMiddleware: an error the handler returns is
\* reported as a panic as well.
PanicMiddlewareWrapsErrors(out) ==
    IF out.panicked
    THEN IF out.value.t = "error"
         THEN Outcome(out.w, panicError(out.value.v, ""), FALSE, NoValue)
         ELSE Outcome(out.w, panicError(nil, Sprintf("%v", <<out.value>>)), FALSE, NoValue)
    ELSE IF out.err # nil THEN Outcome(out.w, panicError(out.err, ""), FALSE, NoValue)
    ELSE out

\* PanicMiddleware(h), applied to the outcome of h.Serve(w, r): the deferred
\* function recovers a panic and assigns the named result err.
PanicMiddleware(out) ==
    IF out.panicked
    THEN IF out.value.t = "error"
         THEN Outcome(out.w, panicError(out.value.v, ""), FALSE, NoValue)
         ELSE Outcome(out.w, panicError(nil, Sprintf("%v", <<out.value>>)), FALSE, NoValue)
    ELSE out

\* The error handler of TestPanic: it keeps the error and calls the default.
errorHandler(w, e) == DefaultErrorHandler(w, e)

\* WrapHandlerFunc(h, eh), applied to the outcome of h(w, r): a panic goes on
\* to the caller; a non-nil error is handed to the error handler, once.
WrapHandlerFunc(out) ==
    IF out.panicked THEN [w |-> out.w, handled |-> 0, propagated |-> TRUE]
    ELSE IF out.err # nil
         THEN [w |-> errorHandler(out.w, out.err), handled |-> 1, propagated |-> FALSE]
    ELSE [w |-> out.w, handled |-> 0, propagated |-> FALSE]

\* A faulty variant of HandlerFuncServeHTTP: the error handler is called
\* whatever the handler returned.
HandlerFuncServeHTTPAlways(out) ==
    IF out.panicked THEN [w |-> out.w, handled |-> 0, propagated |-> TRUE]
    ELSE [w |-> DefaultErrorHandler(out.w, out.err), handled |-> 1, propagated |-> FALSE]

\* HandlerFunc.ServeHTTP, applied to the outcome of h(w, r).
HandlerFuncServeHTTP(out) ==
    IF out.panicked THEN [w |-> out.w, handled |-> 0, propagated |-> TRUE]
    ELSE IF out.err # nil
         THEN [w |-> DefaultErrorHandler(out.w, out.err), handled |-> 1, propagated |-> FALSE]
    ELSE [w |-> out.w, handled |-> 0, propagated |-> FALSE]

\* XHandlerFunc.ServeHTTP, applied to the outcome of h(w, r, zeroValue).
XHandlerFuncServeHTTP(out) ==
    IF out.panicked THEN [w |-> out.w, handled |-> 0, propagated |-> TRUE]
    ELSE IF out.err # nil
         THEN [w |-> DefaultErrorHandler(out.w, out.err), handled |-> 1, propagated |-> FALSE]
    ELSE [w |-> out.w, handled |-> 0, propagated |-> FALSE]

\* WrapXHandlerFunc(h, eh), applied to the outcome of h(w, r, p).
WrapXHandlerFunc(out) ==
    IF out.panicked THEN [w |-> out.w, handled |-> 0, propagated |-> TRUE]
    ELSE IF out.err # nil
         THEN [w |-> errorHandler(out.w, out.err), handled |-> 1, propagated |-> FALSE]
    ELSE [w |-> out.w, handled |-> 0, propagated |-> FALSE]

\* h.Serve(w, r, p) for an XHandler: the handlers above, which make no use
\* of the parameter, and
\*   "hello"   writes "Hello, <p>\n" and returns nil              (nameHandler).
XServe(h, w, p) ==
    IF h.does = "hello"
    THEN LET w1 == IF h.contentType # <<>> THEN SetContentType(w, h.contentType[1]) ELSE w
         IN Outcome(Write(w1, Sprintf("Hello, %s\n", <<StringArg(p)>>)), nil, FALSE, NoValue)
    ELSE Serve(h, w)

\* The zero value of the parameter type of the tests, string.
zeroValue == ""

\* Standard middleware, applied to the outcome next of serving the handler
\* it wraps on w:
\*   "after"   calls the next handler and then writes "Did Middleware\n"
\*             (myMiddleware of request_test.go),
\*   "header"  sets the header Foo, which nothing here reads, and calls the
\*             next handler                     (myMiddleware of part_011),
\*   "skip"    answers nothing and does not call the next handler.
Middleware(m, w, next) ==
    CASE m = "after" ->
            IF next.panicked THEN next
            ELSE Outcome(Write(next.w, "Did Middleware\n"), next.err, FALSE, NoValue)
      [] m = "header" -> next
      [] OTHER -> Outcome(w, nil, FALSE, NoValue)

\* handler.ServeHTTP(w, r) for the handler the loop over ms builds around
\* the innermost one, whose outcome is inner: the last of ms is outermost.
\* err is sm.err: what the innermost handler stored, nil if it never ran.
RECURSIVE ServeThrough(_, _, _)
ServeThrough(ms, w, inner) ==
    IF ms = <<>> THEN inner
    ELSE Middleware(ms[Len(ms)], w, ServeThrough(SubSeq(ms, 1, Len(ms) - 1), w, inner))

\* A faulty variant of XApplyStandardMiddleware, the "handler = m(h)" of an
\* earlier revision: the middleware wraps h itself, whose ServeHTTP passes
\* the zero value and answers errors itself, and no error is returned.
XApplyStandardMiddlewareWrapsH(h, ms, w, p) ==
    LET inner == XServe(h, w, zeroValue)
        served == IF inner.panicked THEN inner
                  ELSE Outcome(XHandlerFuncServeHTTP(inner).w, nil, FALSE, NoValue)
    IN ServeThrough(ms, w, served)

\* XApplyStandardMiddleware(h, ms...)(w, r, p)
XApplyStandardMiddleware(h, ms, w, p) == ServeThrough(ms, w, XServe(h, w, p))

\* A faulty variant of ApplyStandardMiddleware, the "handler = m(h)" of an
\* earlier revision: the middleware wraps h itself, whose ServeHTTP answers
\* errors itself, and no error is returned.
ApplyStandardMiddlewareWrapsH(h, ms, w) ==
    LET inner == Serve(h, w)
        served == IF inner.panicked THEN inner
                  ELSE Outcome(HandlerFuncServeHTTP(inner).w, nil, FALSE, NoValue)
    IN ServeThrough(ms, w, served)

\* ApplyStandardMiddleware(h, ms...)(w, r)
ApplyStandardMiddleware(h, ms, w) == ServeThrough(ms, w, Serve(h, w))

----------------------------------------------------------------------------
(* The state machine: a caller builds an error value with the package's    *)
(* constructors, then serves one request whose handler returns it or       *)
(* panics with it.                                                         *)

VARIABLES
    err,        \* the error value built so far
    last,       \* the constructor call that built it: [op, status, msg]
    cause,      \* the error handed to the first of the latest run of Wrap calls
    wrapped,    \* the statuses of the Wrap calls since, first call first
    pc,         \* where the request is: "building" before it, "served" after it
    handler,    \* the handler of the request served
    recovers,   \* whether PanicMiddleware wraps the handler
    through,    \* how the request was served: <<adapter, standard middleware, parameter>>
    ret,        \* the error the (wrapped) handler returned
    propagated, \* whether a panic reached the caller of ServeHTTP
    handled,    \* how many times the error handler was called
    w,          \* the response
    sd,         \* where the goroutine running the shutdown function is
    goroutines, \* the concurrent requests through one wrapped handler
    carriers    \* the standardMiddleware values allocated, by address

vars == <<err, last, cause, wrapped, pc, handler, recovers, through, ret, propagated, handled, w, sd,
          goroutines, carriers>>

request == <<pc, handler, recovers, through, ret, propagated, handled, w, sd, goroutines, carriers>>

\* Errors a caller creates outside the package.
ExternalErrors ==
    {errorString("SOME_ERROR", p) : p \in Ptrs}
    \cup {netError(t, 1) : t \in BOOLEAN}
    \cup {userPublic("quota exceeded", 1), validationErrors}

\* Format strings with their arguments, for Errorf and PublicErrorf.
Formats ==
    { [format |-> "%s", args |-> <<StringArg("")>>],
      [format |-> "no such product %d", args |-> <<IntArg(7)>>] }

\* Content-Type header values a handler sets: none, or one value.
ContentTypes ==
    { <<>>, <<"text/plain">>, <<"application/json">>, <<"text/html; charset=UTF-8">> }

\* What the handler of a request does, with the value it panics with.  A
\* handler that returns or panics with an error uses the error built so
\* far; the handlers that use no error are served before one is built.
Behaviours(e) ==
    IF e = nil
    THEN { <<"ok", NoValue>>, <<"return", NoValue>>,
           <<"panic", StringArg("Get me outta here!")>>,
           <<"panic", StringArg("")>>,
           <<"panic", IntArg(42)>> }
    ELSE { <<"return", NoValue>>, <<"panic", ErrorValue(e)>> }

Call(op, s, m) == [status |-> s, msg |-> m, op |-> op]

NoHandler == Handler(<<>>, "none", nil, NoValue)

NotServed == <<"none", <<>>, "">>

Init ==
    /\ err = nil
    /\ last = Call("none", 0, "")
    /\ cause = nil
    /\ wrapped = <<>>
    /\ pc = "building"
    /\ handler = NoHandler
    /\ recovers = FALSE
    /\ through = NotServed
    /\ ret = nil
    /\ propagated = FALSE
    /\ handled = 0
    /\ w = NewRecorder
    /\ sd = "none"
    /\ goroutines = <<>>
    /\ carriers = <<>>

\* A constructor other than Wrap returned e.
Built(e, call) ==
    /\ pc = "building"
    /\ err' = e
    /\ last' = call
    /\ cause' = nil
    /\ wrapped' = <<>>
    /\ UNCHANGED request

DoPredefined == \E s \in Statuses : Built(predefinedStatus(s), Call("predefined", s, ""))

DoNew == \E s \in Statuses, m \in Messages, p \in Ptrs : Built(New(s, m, p), Call("New", s, m))

DoErrorf ==
    \E s \in Statuses, f \in Formats, p \in Ptrs :
        Built(Errorf(s, f.format, f.args, p), Call("Errorf", s, Sprintf(f.format, f.args)))

DoNewPublic ==
    \E s \in Statuses, m \in PublicMessages : Built(NewPublic(s, m), Call("NewPublic", s, m))

DoPublicErrorf ==
    \E s \in Statuses, f \in Formats :
        Built(PublicErrorf(s, f.format, f.args),
              Call("PublicErrorf", s, Sprintf(f.format, f.args)))

DoExternal == \E e \in ExternalErrors : Built(e, Call("external", 0, ""))

DoWrap ==
    \E s \in Statuses :
        /\ pc = "building"
        /\ Len(err) < MaxDepth
        /\ err' = Wrap(err, s)
        /\ last' = Call("Wrap", s, "")
        /\ cause' = IF wrapped = <<>> THEN err ELSE cause
        /\ wrapped' = Append(wrapped, s)
        /\ UNCHANGED request

\* One request through WrapHandlerFunc(h, errorHandler), h being the handler
\* itself or PanicMiddleware(handler).
DoServe ==
    \E ct \in ContentTypes, b \in Behaviours(err), mw \in BOOLEAN :
        LET h == Handler(ct, b[1], IF b[1] = "return" THEN err ELSE nil, b[2])
            inner == Serve(h, NewRecorder)
            out == IF mw THEN PanicMiddleware(inner) ELSE inner
            done == WrapHandlerFunc(out)
        IN /\ pc = "building"
           /\ pc' = "served"
           /\ handler' = h
           /\ recovers' = mw
           /\ through' = <<"WrapHandlerFunc", <<>>, "">>
           /\ ret' = out.err
           /\ propagated' = done.propagated
           /\ handled' = done.handled
           /\ w' = done.w
           /\ UNCHANGED <<err, last, cause, wrapped, sd,
                     goroutines, carriers>>

\* The caller goes on with the error the handler returned.
DoAdopt ==
    /\ pc = "served"
    /\ ret # nil
    /\ Len(ret) <= MaxDepth
    /\ err' = ret
    /\ last' = Call("returned", 0, "")
    /\ cause' = nil
    /\ wrapped' = <<>>
    /\ pc' = "building"
    /\ handler' = NoHandler
    /\ recovers' = FALSE
    /\ through' = NotServed
    /\ ret' = nil
    /\ propagated' = FALSE
    /\ handled' = 0
    /\ w' = NewRecorder
    /\ UNCHANGED <<sd, goroutines, carriers>>

\* The next request starts from nothing.
DoReset ==
    /\ pc = "served"
    /\ err' = nil
    /\ last' = Call("none", 0, "")
    /\ cause' = nil
    /\ wrapped' = <<>>
    /\ pc' = "building"
    /\ handler' = NoHandler
    /\ recovers' = FALSE
    /\ through' = NotServed
    /\ ret' = nil
    /\ propagated' = FALSE
    /\ handled' = 0
    /\ w' = NewRecorder
    /\ UNCHANGED <<sd, goroutines, carriers>>

Next ==
    \/ DoPredefined
    \/ DoNew
    \/ DoErrorf
    \/ DoNewPublic
    \/ DoPublicErrorf
    \/ DoExternal
    \/ DoWrap
    \/ DoServe
    \/ DoAdopt
    \/ DoReset

Spec == Init /\ [][Next]_vars

----------------------------------------------------------------------------
(* WriteResponse on its own: a caller sets a Content-Type header (or none) *)
(* on a fresh response and calls WriteResponse with a status and a message.*)

\* Content-Type header values: none, or one value.
HeaderValues ==
    { <<>>, <<"">>,
      <<"application/json">>, <<"application/json; charset=utf-8">>,
      <<"Application/JSON">>, <<"application/json;">>,
      <<"application/json; charset=utf-8; charset=latin1">>,
      <<"text/plain">>, <<"text/plain; charset=\"UTF-8\"">>, <<" text/plain ">>,
      <<"text">>, <<"text; q">>,
      <<"text/html">>, <<"text/html; charset=UTF-8">>,
      <<"application/xml">>, <<"text/plain/x">>, <<"/json">> }

\* Messages given to WriteResponse.
ResponseMessages ==
    { "", "Not Found", "Bad Request: missing 'name' parameter", "<b>\"R&D\"</b>" }

InitResponse == Init

\* WriteResponse(w, s, m) on a response with the header value ct.
DoWriteResponse ==
    \E ct \in HeaderValues, s \in Statuses, m \in ResponseMessages :
        LET h == Handler(ct, "return", nil, NoValue)
        IN /\ pc = "building"
           /\ pc' = "written"
           /\ handler' = h
           /\ last' = Call("WriteResponse", s, m)
           /\ w' = WriteResponse(Serve(h, NewRecorder).w, s, m)
           /\ UNCHANGED <<err, cause, wrapped, recovers, through, ret, propagated, handled, sd,
                     goroutines, carriers>>

\* The next response starts fresh.
DoNextResponse ==
    /\ pc = "written"
    /\ pc' = "building"
    /\ handler' = NoHandler
    /\ last' = Call("none", 0, "")
    /\ w' = NewRecorder
    /\ UNCHANGED <<err, cause, wrapped, recovers, through, ret, propagated, handled, sd,
                     goroutines, carriers>>

NextResponse ==
    \/ DoWriteResponse
    \/ DoNextResponse

SpecResponse == InitResponse /\ [][NextResponse]_vars

----------------------------------------------------------------------------
(* Requests through the adapters to http.Handler and through standard     *)
(* middleware applied by ApplyStandardMiddleware / XApplyStandardMiddleware.*)

\* The longest list of standard middleware applied.
MaxMiddleware == 2

\* Parameters given to an XHandler: the tests' "Bill" and the zero value.
Params == {zeroValue, "Bill"}

MiddlewareKinds == {"after", "header", "skip"}

\* The lists ms of standard middleware, in the order they are given.
MiddlewareLists ==
    UNION { [1..n -> MiddlewareKinds] : n \in 0..MaxMiddleware }

\* What the handlers served here may do, having the error e at hand: what
\* Behaviours gives and, without an error, greet the parameter, with one,
\* write part of a body before returning the error.
XBehaviours(e) ==
    Behaviours(e)
    \cup (IF e = nil THEN { <<"hello", NoValue>> } ELSE { <<"write", NoValue>> })

Adapters ==
    {"HandlerFunc.ServeHTTP", "XHandlerFunc.ServeHTTP", "WrapHandlerFunc", "WrapXHandlerFunc"}

\* Whether the adapter hands a parameter to the handler it wraps.
IsX(adapter) == adapter \in {"XHandlerFunc.ServeHTTP", "WrapXHandlerFunc"}

InitMiddleware == Init

\* One request through one of the four adapters; WrapXHandlerFunc's result
\* is called with the parameter p, XHandlerFunc.ServeHTTP passes the zero value.
DoServeAdapter ==
    \E a \in Adapters, ct \in ContentTypes, b \in XBehaviours(err), p \in Params :
        LET h == Handler(ct, b[1], IF b[1] \in {"return", "write"} THEN err ELSE nil, b[2])
            given == IF a = "WrapXHandlerFunc" THEN p ELSE zeroValue
            out == IF IsX(a) THEN XServe(h, NewRecorder, given) ELSE Serve(h, NewRecorder)
            done == CASE a = "HandlerFunc.ServeHTTP" -> HandlerFuncServeHTTP(out)
                      [] a = "XHandlerFunc.ServeHTTP" -> XHandlerFuncServeHTTP(out)
                      [] a = "WrapHandlerFunc" -> WrapHandlerFunc(out)
                      [] OTHER -> WrapXHandlerFunc(out)
        IN /\ pc = "building"
           /\ IsX(a) \/ b[1] # "hello"
           /\ pc' = "served"
           /\ handler' = h
           /\ recovers' = FALSE
           /\ through' = <<a, <<>>, given>>
           /\ ret' = out.err
           /\ propagated' = done.propagated
           /\ handled' = done.handled
           /\ w' = done.w
           /\ UNCHANGED <<err, last, cause, wrapped, sd,
                     goroutines, carriers>>

\* One request to ApplyStandardMiddleware(h, ms...), served as an
\* http.Handler, or to a HandlerFunc that returns
\* XApplyStandardMiddleware(h, ms...)(w, r, p), served likewise.
DoServeMiddleware ==
    \E x \in BOOLEAN, ms \in MiddlewareLists, ct \in ContentTypes,
       b \in XBehaviours(err), p \in Params :
        LET h == Handler(ct, b[1], IF b[1] \in {"return", "write"} THEN err ELSE nil, b[2])
            out == IF x THEN XApplyStandardMiddleware(h, ms, NewRecorder, p)
                   ELSE ApplyStandardMiddleware(h, ms, NewRecorder)
            done == HandlerFuncServeHTTP(out)
        IN /\ pc = "building"
           /\ x \/ (b[1] # "hello" /\ p = zeroValue)
           /\ pc' = "served"
           /\ handler' = h
           /\ recovers' = FALSE
           /\ through' = <<IF x THEN "XApplyStandardMiddleware" ELSE "ApplyStandardMiddleware",
                           ms, p>>
           /\ ret' = out.err
           /\ propagated' = done.propagated
           /\ handled' = done.handled
           /\ w' = done.w
           /\ UNCHANGED <<err, last, cause, wrapped, sd,
                     goroutines, carriers>>

NextMiddleware ==
    \/ DoPredefined
    \/ DoNewPublic
    \/ DoExternal
    \/ DoServeAdapter
    \/ DoServeMiddleware
    \/ DoReset

SpecMiddleware == InitMiddleware /\ [][NextMiddleware]_vars

----------------------------------------------------------------------------
(* PanicMiddleware(h, s) and XPanicMiddleware(h, s): the revision with a   *)
(* function s that is called if there is a panic. The request and s run as *)
(* two goroutines; s is what the comment in the deferred function has in   *)
(* mind, a server shutdown that waits for the requests in flight.          *)

\* The error the deferred function assigns to the named result err: the
\* recovered value itself if it is an error, fmt.Errorf("%v", r) otherwise.
RecoveredError(r) ==
    IF r.t = "error" THEN r.v ELSE errorString(Sprintf("%v", <<r>>), 1)

\* A faulty variant of StartShutdown: the deferred function calls s() itself
\* and returns when s has returned.
StartShutdownInline(given) == IF given THEN "call" ELSE "skip"

\* A faulty variant of StartShutdown: s is started without the nil check.
StartShutdownUnchecked(given) == "go"

\* "if s != nil { go s() }"
StartShutdown(given) == IF given THEN "go" ELSE "skip"

PanicMiddlewares ==
    {"PanicMiddleware(h, s)", "PanicMiddleware(h, nil)",
     "XPanicMiddleware(h, s)", "XPanicMiddleware(h, nil)"}

\* Whether the middleware the request goes through was given a function s.
HasShutdown == through[1] \in {"PanicMiddleware(h, s)", "XPanicMiddleware(h, s)"}

\* The request is in flight from the call of ServeHTTP until it returns.
InFlight == pc \in {"serving", "recovered", "returned"}

InitShutdown == Init

\* The server calls ServeHTTP of (X)PanicMiddleware(h, s) in the request's
\* goroutine; h.Serve starts.
ShStart ==
    \E name \in PanicMiddlewares, ct \in ContentTypes, b \in XBehaviours(err), p \in Params :
        LET x == name \in {"XPanicMiddleware(h, s)", "XPanicMiddleware(h, nil)"}
        IN /\ pc = "building"
           /\ x \/ (b[1] # "hello" /\ p = zeroValue)
           /\ pc' = "serving"
           /\ handler' = Handler(ct, b[1], IF b[1] \in {"return", "write"} THEN err ELSE nil, b[2])
           /\ recovers' = TRUE
           /\ through' = <<name, <<>>, p>>
           /\ UNCHANGED <<err, last, cause, wrapped, ret, propagated, handled, w, sd,
                     goroutines, carriers>>

\* h.Serve returns without a panic: recover() gives nil, err is what h returned.
ShServed ==
    LET out == XServe(handler, NewRecorder, through[3])
    IN /\ pc = "serving"
       /\ ~out.panicked
       /\ pc' = "returned"
       /\ ret' = out.err
       /\ w' = out.w
       /\ UNCHANGED <<err, last, cause, wrapped, handler, recovers, through, propagated, handled, sd,
                     goroutines, carriers>>

\* h.Serve panics: the deferred function recovers the value, sets err and
\* starts s if it was given one.
ShRecover ==
    LET out == XServe(handler, NewRecorder, through[3])
    IN /\ pc = "serving"
       /\ out.panicked
       /\ pc' = "recovered"
       /\ ret' = RecoveredError(out.value)
       /\ w' = out.w
       /\ sd' = IF StartShutdown(HasShutdown) = "skip" THEN sd ELSE "started"
       /\ UNCHANGED <<goroutines, carriers>>
       /\ UNCHANGED <<err, last, cause, wrapped, handler, recovers, through, propagated, handled>>

\* The deferred function returns, and with it the middleware; had it called
\* s itself, only after s returned.
ShReturn ==
    /\ pc = "recovered"
    /\ StartShutdown(HasShutdown) = "call" => sd = "done"
    /\ pc' = "returned"
    /\ UNCHANGED <<err, last, cause, wrapped, handler, recovers, through, ret, propagated, handled, w, sd,
                     goroutines, carriers>>

\* HandlerFunc.ServeHTTP answers the error returned, and the request is over.
ShComplete ==
    LET done == HandlerFuncServeHTTP(Outcome(w, ret, FALSE, NoValue))
    IN /\ pc = "returned"
       /\ pc' = "served"
       /\ handled' = done.handled
       /\ w' = done.w
       /\ UNCHANGED <<err, last, cause, wrapped, handler, recovers, through, ret, propagated, sd,
                     goroutines, carriers>>

\* s begins the shutdown, which waits for the requests in flight.
ShShutdownBegins ==
    /\ sd = "started"
    /\ sd' = "waiting"
    /\ UNCHANGED <<goroutines, carriers>>
    /\ UNCHANGED <<err, last, cause, wrapped, pc, handler, recovers, through, ret, propagated, handled, w>>

\* No request is in flight any more: the shutdown, and s, return.
ShShutdownEnds ==
    /\ sd = "waiting"
    /\ ~InFlight
    /\ sd' = "done"
    /\ UNCHANGED <<goroutines, carriers>>
    /\ UNCHANGED <<err, last, cause, wrapped, pc, handler, recovers, through, ret, propagated, handled, w>>

\* Both goroutines are through; a server starts afresh.
ShRestart ==
    /\ pc = "served"
    /\ sd \in {"none", "done"}
    /\ err' = nil
    /\ last' = Call("none", 0, "")
    /\ cause' = nil
    /\ wrapped' = <<>>
    /\ pc' = "building"
    /\ handler' = NoHandler
    /\ recovers' = FALSE
    /\ through' = NotServed
    /\ ret' = nil
    /\ propagated' = FALSE
    /\ handled' = 0
    /\ w' = NewRecorder
    /\ sd' = "none"
    /\ UNCHANGED <<goroutines, carriers>>

NextShutdown ==
    \/ DoPredefined
    \/ DoExternal
    \/ ShStart
    \/ ShServed
    \/ ShRecover
    \/ ShReturn
    \/ ShComplete
    \/ ShShutdownBegins
    \/ ShShutdownEnds
    \/ ShRestart

\* The Go scheduler runs every goroutine that can run: a step of the request
\* or of s that stays possible is taken. The fourth condition is
\* WF_vars(ShComplete), its ENABLED written out: ShComplete can be taken,
\* and changes pc, exactly when pc = "returned".
SpecShutdown ==
    /\ InitShutdown
    /\ [][NextShutdown]_vars
    /\ WF_vars(ShServed)
    /\ WF_vars(ShRecover)
    /\ WF_vars(ShReturn)
    /\ ([]<>(pc # "returned") \/ []<><<ShComplete>>_vars)
    /\ WF_vars(ShShutdownBegins)
    /\ WF_vars(ShShutdownEnds)

----------------------------------------------------------------------------
(* Concurrent requests through one handler returned by                     *)
(* ApplyStandardMiddleware or XApplyStandardMiddleware: each request runs  *)
(* in its own goroutine, and the steps of the goroutines interleave.       *)

\* The number of requests in flight at once.
MaxRequests == 2

Requests == 1..MaxRequests

\* A request that has not been made yet.
Idle == [param |-> zeroValue, at |-> "idle", carrier |-> 0, received |-> zeroValue, returned |-> nil]

\* A faulty variant of NewCarrier: one carrier, allocated when the
\* middleware is applied, serves every call.
NewCarrierShared(heap) == 1

\* "sm := &standardMiddleware[P]{p, nil}": the address of a new value.
NewCarrier(heap) == Len(heap) + 1

\* The heap after *a = standardMiddleware[P]{p, nil}.
Allocate(heap, a, p) ==
    LET sm == [err |-> nil, params |-> p]
    IN IF a > Len(heap) THEN Append(heap, sm) ELSE [heap EXCEPT ![a] = sm]

\* The handler all the requests go to, like helloHandler of the tests:
\* without a name it returns a public error, with one it greets.
helloHandler(name) ==
    IF name = zeroValue
    THEN Handler(<<"text/plain">>, "return",
                 NewPublic(StatusBadRequest, "missing 'name' parameter"), NoValue)
    ELSE Handler(<<"text/plain">>, "hello", nil, NoValue)

\* The lists of middleware that call their next handler.
CallingLists == {ms \in MiddlewareLists : \A i \in DOMAIN ms : ms[i] # "skip"}

\* ApplyStandardMiddleware(h, ms...) or XApplyStandardMiddleware(h, ms...)
\* builds the handler the requests will go through.
CcApply ==
    \E name \in {"ApplyStandardMiddleware", "XApplyStandardMiddleware"}, ms \in CallingLists :
        /\ pc = "building"
        /\ err = nil
        /\ pc' = "concurrent"
        /\ through' = <<name, ms, zeroValue>>
        /\ goroutines' = [g \in Requests |-> Idle]
        /\ carriers' = <<>>
        /\ UNCHANGED <<err, last, cause, wrapped, handler, recovers, ret, propagated, handled, w, sd>>

\* Request g calls the handler with the parameter p (for
\* ApplyStandardMiddleware, p is the name in the request itself): sm is
\* allocated and put into the request's context.
CcCall(g) ==
    \E p \in Params :
        LET a == NewCarrier(carriers)
        IN /\ pc = "concurrent"
           /\ goroutines[g].at = "idle"
           /\ carriers' = Allocate(carriers, a, p)
           /\ goroutines' = [goroutines EXCEPT ![g] = [@ EXCEPT !.param = p, !.at = "called", !.carrier = a]]
           /\ UNCHANGED <<err, last, cause, wrapped, pc, handler, recovers, through, ret,
                          propagated, handled, w, sd>>

\* The middleware of request g has called on to the innermost handler, which
\* takes sm from the context and calls h.Serve, with sm.params if h is an XHandler.
CcEnter(g) ==
    /\ pc = "concurrent"
    /\ goroutines[g].at = "called"
    /\ goroutines' = [goroutines EXCEPT ![g] =
          [@ EXCEPT !.at = "serving",
                    !.received = IF through[1] = "XApplyStandardMiddleware"
                                 THEN carriers[goroutines[g].carrier].params
                                 ELSE goroutines[g].param]]
    /\ UNCHANGED <<err, last, cause, wrapped, pc, handler, recovers, through, ret,
                   propagated, handled, w, sd, carriers>>

\* h.Serve of request g returns, and the innermost handler stores the error in sm.err.
CcStore(g) ==
    LET out == XServe(helloHandler(goroutines[g].received), NewRecorder, goroutines[g].received)
    IN /\ pc = "concurrent"
       /\ goroutines[g].at = "serving"
       /\ carriers' = [carriers EXCEPT ![goroutines[g].carrier].err = out.err]
       /\ goroutines' = [goroutines EXCEPT ![g].at = "stored"]
       /\ UNCHANGED <<err, last, cause, wrapped, pc, handler, recovers, through, ret,
                      propagated, handled, w, sd>>

\* The middleware of request g has returned: "return sm.err".
CcReturn(g) ==
    /\ pc = "concurrent"
    /\ goroutines[g].at = "stored"
    /\ goroutines' = [goroutines EXCEPT ![g] =
          [@ EXCEPT !.at = "done", !.returned = carriers[goroutines[g].carrier].err]]
    /\ UNCHANGED <<err, last, cause, wrapped, pc, handler, recovers, through, ret,
                   propagated, handled, w, sd, carriers>>

\* All the requests are through; the next run starts from nothing.
CcRestart ==
    /\ pc = "concurrent"
    /\ \A g \in Requests : goroutines[g].at = "done"
    /\ pc' = "building"
    /\ through' = NotServed
    /\ goroutines' = <<>>
    /\ carriers' = <<>>
    /\ UNCHANGED <<err, last, cause, wrapped, handler, recovers, ret, propagated, handled, w, sd>>

NextConcurrent ==
    \/ CcApply
    \/ \E g \in Requests : CcCall(g)
    \/ \E g \in Requests : CcEnter(g)
    \/ \E g \in Requests : CcStore(g)
    \/ \E g \in Requests : CcReturn(g)
    \/ CcRestart

SpecConcurrent == Init /\ [][NextConcurrent]_vars

----------------------------------------------------------------------------
(* The constructors over arbitrary arguments: the status is an int and the *)
(* message a string, and no constructor looks at either before storing it. *)
(* The error built is then answered by DefaultErrorHandler on a fresh      *)
(* recorder.                                                               *)

\* Status arguments: the statuses of the tests, and integers that are not
\* status codes.
StatusArguments == Statuses \cup {0, 99, 600, 1000}

\* Message arguments: the messages of the tests, and messages with a
\* percent sign.
MessageArguments == Messages \cup {"50%", "%d items", "100%% sure"}

\* Format strings with their arguments, one of them with a percent sign in
\* an argument.
FormatArguments == Formats \cup {[format |-> "%s", args |-> <<StringArg("50%")>>]}

\* net/http checkWriteHeaderCode: WriteHeader panics on a code that has not
\* three digits.
checkWriteHeaderCode(code) == code >= 100 /\ code <= 999

\* Whether DefaultErrorHandler panics in w.WriteHeader(StatusCode(e)).
WriteHeaderPanics(rec, e) == ~rec.wroteHeader /\ ~checkWriteHeaderCode(StatusCode(e))

ArgNew ==
    \E s \in StatusArguments, m \in MessageArguments :
        Built(New(s, m, 1), Call("New", s, m))

ArgErrorf ==
    \E s \in StatusArguments, f \in FormatArguments :
        Built(Errorf(s, f.format, f.args, 1), Call("Errorf", s, Sprintf(f.format, f.args)))

ArgNewPublic ==
    \E s \in StatusArguments, m \in MessageArguments :
        Built(NewPublic(s, m), Call("NewPublic", s, m))

ArgPublicErrorf ==
    \E s \in StatusArguments, f \in FormatArguments :
        Built(PublicErrorf(s, f.format, f.args),
              Call("PublicErrorf", s, Sprintf(f.format, f.args)))

ArgWrap ==
    \E s \in StatusArguments :
        /\ pc = "building"
        /\ err # nil
        /\ Len(err) < MaxDepth - 1
        /\ err' = Wrap(err, s)
        /\ last' = Call("Wrap", s, "")
        /\ cause' = IF wrapped = <<>> THEN err ELSE cause
        /\ wrapped' = Append(wrapped, s)
        /\ UNCHANGED request

\* DefaultErrorHandler(httptest.NewRecorder(), err)
ArgRespond ==
    /\ pc = "building"
    /\ err # nil
    /\ IF WriteHeaderPanics(NewRecorder, err)
       THEN /\ pc' = "panicked"
            /\ w' = NewRecorder
       ELSE /\ pc' = "responded"
            /\ w' = DefaultErrorHandler(NewRecorder, err)
    /\ UNCHANGED <<err, last, cause, wrapped, handler, recovers, through, ret, propagated,
                   handled, sd, goroutines, carriers>>

ArgReset ==
    /\ pc \in {"responded", "panicked"}
    /\ err' = nil
    /\ last' = Call("none", 0, "")
    /\ cause' = nil
    /\ wrapped' = <<>>
    /\ pc' = "building"
    /\ w' = NewRecorder
    /\ UNCHANGED <<handler, recovers, through, ret, propagated, handled, sd, goroutines,
                   carriers>>

NextArguments ==
    \/ DoPredefined
    \/ ArgNew
    \/ ArgErrorf
    \/ ArgNewPublic
    \/ ArgPublicErrorf
    \/ ArgWrap
    \/ ArgRespond
    \/ ArgReset

SpecArguments == Init /\ [][NextArguments]_vars

----------------------------------------------------------------------------
(* Properties. *)

\* The error of the chain that offers the status-code capability, if any.
CarriesStatus(e) == ErrorsAs(e, "httpStatusCode") # nil

\* The first error of the chain with a Temporary() method reports true.
ReportsTemporary(e) ==
    LET t == ErrorsAs(e, "Temporary") IN t # nil /\ Top(t).temp

\* Every node of the chain is of a comparable type.
AllComparable(e) == \A i \in 1..Len(e) : Comparable(e[i])

\* The chain holds only nodes of the package's private kinds and of causes
\* that have no PublicMessage() method.
NoPublicNode(e) ==
    \A i \in 1..Len(e) :
        e[i].kind \in {"httpError", "wrappedError", "errorString", "netError", "validationErrors"}

\* C1: for every status s and every cause c, also one whose chain already
\* carries another status, StatusCode(Wrap(c, s)) is s.
C1_WrapStatusCode == last.op = "Wrap" => StatusCode(err) = last.status

\* Wrap was called on a cause that carries a different status.
C1_Witness ==
    /\ last.op = "Wrap"
    /\ Len(wrapped) = 1
    /\ CarriesStatus(cause)
    /\ StatusCode(cause) # last.status
    /\ StatusCode(err) = last.status

\* C2, as stated: StatusCode(nil) is 200, and StatusCode of every non-nil
\* error whose chain offers no status code is 500.
C2_Original ==
    \A e \in {err, ret} :
        /\ e = nil => StatusCode(e) = StatusOK
        /\ e # nil /\ ~CarriesStatus(e) => StatusCode(e) = StatusInternalServerError

\* C2, amended: StatusCode(nil) is 200, and StatusCode of a non-nil error
\* whose chain offers no status code is 500, unless the first error of the
\* chain that has a Temporary() bool method reports true: then it is 503.
C2_DefaultStatusCode ==
    \A e \in {err, ret} :
        /\ e = nil => StatusCode(e) = StatusOK
        /\ e # nil /\ ~CarriesStatus(e) =>
              StatusCode(e) = IF ReportsTemporary(e) THEN StatusServiceUnavailable
                              ELSE StatusInternalServerError

\* A panic error around a temporary error: no status code in the chain.
C2_Witness ==
    /\ Len(ret) = 2
    /\ ~CarriesStatus(ret)
    /\ ReportsTemporary(ret)
    /\ StatusCode(ret) = StatusServiceUnavailable
    /\ StatusCode(err) = StatusServiceUnavailable

\* C3: an error built by Wrap(c, s), by New(s, m) with m non-empty or by
\* NewPublic(s, m) matches the predefined status of s, and the predefined
\* status does not match it.
C3_IsNotSymmetric ==
    (\/ last.op = "Wrap"
     \/ last.op = "New" /\ last.msg # ""
     \/ last.op = "NewPublic")
    => /\ ErrorsIs3(err, predefinedStatus(last.status)) = "true"
       /\ ErrorsIs3(predefinedStatus(last.status), err) = "false"

\* Wrap around an uncomparable cause, matched both ways round.
C3_Witness ==
    /\ last.op = "Wrap"
    /\ cause = validationErrors
    /\ ErrorsIs(err, predefinedStatus(last.status))
    /\ ~ErrorsIs(predefinedStatus(last.status), err)

\* C4, as stated: after one or more Wrap calls around an error c, the result
\* matches c and the predefined status of every one of the calls.
C4_Original ==
    (wrapped # <<>> /\ cause # nil) =>
        /\ ErrorsIs(err, cause)
        /\ \A i \in 1..Len(wrapped) : ErrorsIs(err, predefinedStatus(wrapped[i]))

\* C4, amended: the same for every cause c whose chain holds only values of
\* comparable types.
C4_WrapKeepsCause ==
    (wrapped # <<>> /\ cause # nil /\ AllComparable(cause)) =>
        /\ ErrorsIs(err, cause)
        /\ \A i \in 1..Len(wrapped) : ErrorsIs(err, predefinedStatus(wrapped[i]))

\* Two Wrap calls with different statuses around a caller's error.
C4_Witness ==
    /\ Len(wrapped) = 2
    /\ wrapped[1] # wrapped[2]
    /\ cause # nil
    /\ Top(cause).kind = "errorString"
    /\ ErrorsIs(err, cause)
    /\ ErrorsIs(err, predefinedStatus(wrapped[1]))

\* C5: PublicMessage(nil) is ""; PublicMessage(NewPublic(s, m)) is m; and
\* PublicMessage of an error built only from Wrap, New, Errorf and
\* predefined statuses around causes without a PublicMessage() method is "".
C5_PublicMessage ==
    /\ err = nil => PublicMessage(err) = ""
    /\ last.op = "NewPublic" => PublicMessage(err) = last.msg
    /\ NoPublicNode(err) => PublicMessage(err) = ""

\* New with a message, wrapped once more: the message stays private.
C5_Witness ==
    /\ Len(err) = 3
    /\ NoPublicNode(err)
    /\ err[3].msg = "no such product ID"
    /\ PublicMessage(err) = ""

\* The error with nothing but a status code and a public message.
Canonical(code, message) ==
    IF message = "" THEN httpError(code) ELSE NewPublic(code, message)

\* The response writer as the handler of the request left it.
Prepared == Serve(handler, NewRecorder).w

\* C6: the default error response is decided by StatusCode and
\* PublicMessage alone: the response to the returned error is the response,
\* under the same content type, to the error that has just that status and
\* that public message.  Two errors that agree on both therefore get the
\* same status and the same body, whatever their own texts.
C6_NoPrivateText ==
    (pc = "served" /\ handled = 1) =>
        w = DefaultErrorHandler(Prepared, Canonical(StatusCode(ret), PublicMessage(ret)))

\* An error with a private message and a wrapped cause was answered.
C6_Witness ==
    /\ pc = "served"
    /\ handled = 1
    /\ Len(ret) = 3
    /\ ret[3].msg = "no such product ID"
    /\ ret # Canonical(StatusCode(ret), PublicMessage(ret))
    /\ ErrorText(ret) # ErrorText(Canonical(StatusCode(ret), PublicMessage(ret)))
    /\ w.code = StatusCode(ret)

\* C7: New(s, "") and Errorf(s, ...) with an empty formatted result equal the
\* predefined status of s; New(s, m) with m non-empty does not equal it but
\* matches it.
C7_EmptyMessage ==
    /\ (last.op \in {"New", "Errorf"} /\ last.msg = "") =>
            GoEqual(err, predefinedStatus(last.status)) = "true"
    /\ (last.op = "New" /\ last.msg # "") =>
            /\ GoEqual(err, predefinedStatus(last.status)) = "false"
            /\ ErrorsIs(err, predefinedStatus(last.status))

\* Errorf("%s", "") returned the bare status.
C7_Witness ==
    /\ last.op = "Errorf"
    /\ last.msg = ""
    /\ err = predefinedStatus(last.status)

\* The text of the panic error for each value the handlers panic with.
PanicText(v) ==
    CASE v = StringArg("Get me outta here!") -> "panic: Get me outta here!"
      [] v = StringArg("") -> "panic: "
      [] v = IntArg(42) -> "panic: 42"

\* The handler of the request served panicked behind PanicMiddleware.
Recovered == pc = "served" /\ recovers /\ handler.does = "panic"

\* C8: a panic with a value that is no error does not reach the caller of
\* the wrapped handler; the handler returns an error whose text is "panic: "
\* and the value's string form, and which matches Panic.
C8_PanicWithValue ==
    (Recovered /\ handler.value.t # "error") =>
        /\ ~propagated
        /\ ret # nil
        /\ ErrorText(ret) = PanicText(handler.value)
        /\ ErrorsIs(ret, Panic)

\* The handler panicked with the integer 42.
C8_Witness ==
    /\ Recovered
    /\ handler.value = IntArg(42)
    /\ ErrorText(ret) = "panic: 42"
    /\ ~propagated

\* C9, as stated: a panic with an error value E returns an error that keeps
\* E as its inner error, with an empty message, and matches Panic and E.
C9_Original ==
    (Recovered /\ handler.value.t = "error") =>
        /\ Top(ret).kind = "panicError"
        /\ Unwrap(ret) = handler.value.v
        /\ Top(ret).msg = ""
        /\ ErrorsIs(ret, Panic)
        /\ ErrorsIs(ret, handler.value.v)

\* C9, amended: the returned error keeps E and matches Panic for every E; it
\* matches E for every E whose chain holds only values of comparable types.
C9_PanicWithError ==
    (Recovered /\ handler.value.t = "error") =>
        /\ Top(ret).kind = "panicError"
        /\ Unwrap(ret) = handler.value.v
        /\ Top(ret).msg = ""
        /\ ErrorsIs(ret, Panic)
        /\ AllComparable(handler.value.v) => ErrorsIs(ret, handler.value.v)

\* The handler panicked with a caller's error value.
C9_Witness ==
    /\ Recovered
    /\ handler.value = ErrorValue(errorString("SOME_ERROR", 1))
    /\ ErrorsIs(ret, Panic)
    /\ ErrorsIs(ret, handler.value.v)

\* The handler's panic was recovered and answered by the default handler.
Answered == Recovered /\ handled = 1

\* C10, as stated: the response to a recovered panic has status 500, and
\* with text/plain set before the panic the body "500 Internal Server Error\n".
C10_Original ==
    Answered =>
        /\ w.code = StatusInternalServerError
        /\ handler.contentType = <<"text/plain">> => w.body = "500 Internal Server Error\n"

\* The panic value is an error.
PanicsWithError == handler.value.t = "error"

\* What the code does for a recovered panic: the status is StatusCode of the
\* returned error, which is StatusCode of the panic value when that is an
\* error.  It is 500 when the panic value is no error, or an error whose
\* chain carries no status code and no Temporary() method that reports true;
\* with text/plain set before the panic the body is then
\* "500 Internal Server Error\n", provided the error carries no public message.
PanicResponse ==
    Answered =>
        /\ w.code = StatusCode(ret)
        /\ (PanicsWithError => StatusCode(ret) = StatusCode(handler.value.v))
        /\ (~PanicsWithError \/ (~CarriesStatus(handler.value.v) /\ ~ReportsTemporary(handler.value.v)))
            => /\ w.code = StatusInternalServerError
               /\ (/\ handler.contentType = <<"text/plain">>
                   /\ (PanicsWithError => PublicMessage(handler.value.v) = ""))
                  => w.body = "500 Internal Server Error\n"

\* A panic with a caller's error after text/plain was set.
PanicResponseWitness ==
    /\ Answered
    /\ handler.contentType = <<"text/plain">>
    /\ handler.value = ErrorValue(errorString("SOME_ERROR", 1))
    /\ w.code = StatusInternalServerError
    /\ w.body = "500 Internal Server Error\n"

\* The body format the Content-Type header value asks for.
FormatOf(header) ==
    CASE header \in { <<"application/json">>, <<"application/json; charset=utf-8">>,
                      <<"Application/JSON">>, <<"application/json;">> } -> "json"
      [] header \in { <<"text/plain">>, <<"text/plain; charset=\"UTF-8\"">>,
                      <<" text/plain ">>, <<"text">>, <<"text; q">> } -> "text"
      [] OTHER -> "html"

\* C11: WriteResponse picks the body from the media type of the Content-Type
\* header alone: application/json gives the JSON envelope and a newline,
\* text/plain and text give "<status> <message>\n", and every other value,
\* an unparsable value and no header give the HTML document titled
\* "Error <status>" with the message as its body.
C11_BodyFormat ==
    pc = "written" =>
        w.body = CASE FormatOf(handler.contentType) = "json" ->
                        MarshalJsonError("error", last.msg, last.status) \o "\n"
                   [] FormatOf(handler.contentType) = "text" ->
                        ToString(last.status) \o " " \o last.msg \o "\n"
                   [] OTHER ->
                        "<html><head><meta http-equiv=\"Content-Type\" content=\"text/html; charset=UTF-8\"><title>Error "
                        \o ToString(last.status) \o "</title></head><body>" \o last.msg
                        \o "</body></html>\n"

\* A JSON response was written although the header carries a charset.
C11_Witness ==
    /\ pc = "written"
    /\ handler.contentType = <<"application/json; charset=utf-8">>
    /\ last.msg = "Not Found"
    /\ w.body = "{\"status\":\"error\",\"message\":\"Not Found\",\"code\":404}\n"

\* Whether sub occurs in str.
HasSubstring(str, sub) ==
    \E i \in 1..(Len(str) - Len(sub) + 1) : SubSeq(str, i, i + Len(sub) - 1) = sub

\* A handler returned NewPublic(400, "missing 'name' parameter") and the
\* default error handler answered, the response's content type being ct.
ReturnedMissingName(ct) ==
    /\ pc = "served"
    /\ handler.does = "return"
    /\ handler.contentType = ct
    /\ ret = NewPublic(StatusBadRequest, "missing 'name' parameter")
    /\ handled = 1

\* C12, as stated: with no content type set, the HTML body contains the text
\* "400 Bad Request: missing 'name' parameter".
C12_Original ==
    ReturnedMissingName(<<>>) =>
        HasSubstring(w.body, "400 Bad Request: missing 'name' parameter")

\* C12, amended: with no content type set, the response has status 400 and
\* an HTML body whose title is "Error 400" and whose body element is
\* "Bad Request: missing 'name' parameter".
C12_HtmlBody ==
    ReturnedMissingName(<<>>) =>
        /\ w.code = StatusBadRequest
        /\ HasSubstring(w.body, "<title>Error 400</title>")
        /\ HasSubstring(w.body, "<body>Bad Request: missing 'name' parameter</body>")

\* The HTML answer to the missing parameter.
C12_Witness ==
    /\ ReturnedMissingName(<<>>)
    /\ ~recovers
    /\ HasSubstring(w.body, "<html>")
    /\ HasSubstring(w.body, "Bad Request: missing 'name' parameter")

\* C13: with the content type pre-set to application/json, the body written
\* for the same error is exactly
\* {"status":"error","message":"missing 'name' parameter","code":400} and a
\* newline.
C13_Original ==
    ReturnedMissingName(<<"application/json">>) =>
        w.body = "{\"status\":\"error\",\"message\":\"missing 'name' parameter\",\"code\":400}\n"

\* C13, amended: the body is exactly
\* {"status":"error","message":"Bad Request: missing 'name' parameter","code":400}
\* and a newline: the JSON message field is the status text, ": " and the
\* public message.
C13_JsonBody ==
    ReturnedMissingName(<<"application/json">>) =>
        /\ w.code = StatusBadRequest
        /\ w.body = "{\"status\":\"error\",\"message\":\"Bad Request: missing 'name' parameter\",\"code\":400}\n"

\* The JSON answer to the missing parameter.
C13_Witness ==
    /\ ReturnedMissingName(<<"application/json">>)
    /\ ~recovers
    /\ HasSubstring(w.body, "\"message\":\"Bad Request: missing 'name' parameter\"")

\* The calls the handler of the request made on the response itself.
OwnCalls == Len(Prepared.calls)

\* C14: DefaultErrorHandler(w, e) first calls WriteHeader(StatusCode(e)) and
\* only then writes the body; the body is the one WriteResponse writes for
\* that status and the status text, followed by ": " and the public message
\* exactly when there is one; and when the handler returned e without
\* writing anything the response has status StatusCode(e).
C14_StatusBeforeBody ==
    (pc = "served" /\ handled = 1 /\ through[1] \in Adapters) =>
        LET s == StatusCode(ret)
            pm == PublicMessage(ret)
            message == IF pm = "" THEN StatusText(s) ELSE StatusText(s) \o ": " \o pm
        IN /\ Len(w.calls) > OwnCalls + 1
           /\ w.calls[OwnCalls + 1] = <<"WriteHeader", s, "">>
           /\ \A i \in (OwnCalls + 2)..Len(w.calls) : w.calls[i][1] = "Write"
           /\ w.body = WriteResponse(Prepared, s, message).body
           /\ (OwnCalls = 0 => w.code = s)

\* A public error returned by a handler that wrote nothing was answered.
C14_Witness ==
    /\ pc = "served"
    /\ handled = 1
    /\ through[1] = "HandlerFunc.ServeHTTP"
    /\ handler.does = "return"
    /\ OwnCalls = 0
    /\ PublicMessage(ret) = "missing 'name' parameter"
    /\ StatusCode(ret) = StatusNotFound
    /\ w.calls[1] = <<"WriteHeader", StatusNotFound, "">>
    /\ w.code = StatusNotFound


\* The response and the error of the handler of the request served, called
\* once on a fresh response with the parameter it was given.
OwnOutcome ==
    IF through[1] \in {"XHandlerFunc.ServeHTTP", "WrapXHandlerFunc"}
    THEN XServe(handler, NewRecorder, through[3])
    ELSE Serve(handler, NewRecorder)

\* The error handler of the adapter the request went through.
AdapterErrorHandler(rw, e) ==
    IF through[1] \in {"WrapHandlerFunc", "WrapXHandlerFunc"}
    THEN errorHandler(rw, e)
    ELSE DefaultErrorHandler(rw, e)

\* C15: a request served through HandlerFunc.ServeHTTP,
\* XHandlerFunc.ServeHTTP, WrapHandlerFunc or WrapXHandlerFunc calls the
\* inner handler exactly once (the response holds what one call wrote and
\* nothing else from the handler); when the handler returned a non-nil
\* error the error handler was invoked exactly once, with that error, after
\* the handler; when it returned nil the error handler was never invoked.
C15_HandlerOnceErrorHandlerOnce ==
    (pc = "served" /\ through[1] \in Adapters /\ ~propagated) =>
        /\ ret = OwnOutcome.err
        /\ ret # nil => handled = 1 /\ w = AdapterErrorHandler(OwnOutcome.w, ret)
        /\ ret = nil => handled = 0 /\ w = OwnOutcome.w

\* Each adapter has served a handler that wrote part of a body and returned
\* an error, and the error handler answered once.
C15_Witness ==
    /\ pc = "served"
    /\ through[1] = "HandlerFunc.ServeHTTP"
    /\ handler.does = "write"
    /\ ret # nil
    /\ handled = 1
    /\ w.body # OwnOutcome.w.body
    /\ Len(w.calls) > Len(OwnOutcome.w.calls)

\* A goroutine has yet to finish and neither can take a step: ShServed or
\* ShRecover can be taken when pc = "serving", ShComplete when pc = "returned".
Deadlocked ==
    /\ InFlight \/ sd \in {"started", "waiting"}
    /\ pc \notin {"serving", "returned"}
    /\ ~ENABLED (ShReturn \/ ShShutdownBegins \/ ShShutdownEnds)

\* C16: with PanicMiddleware(h, s) or XPanicMiddleware(h, s) and an s that
\* blocks until the request in flight has completed, no deadlock is
\* reachable; the recovery never waits for s (s is still running, or not
\* even begun, while the request returns); s completes only after the
\* request has, the handler having returned the recovered error; and once a
\* panic is recovered the request completes and s completes.
C16_ShutdownDoesNotBlock ==
    /\ [](~Deadlocked)
    /\ []((sd = "done") => (pc = "served" /\ ret # nil /\ handled = 1))
    /\ (pc = "recovered" /\ HasShutdown) ~> (pc = "served" /\ sd = "done")

\* A panic with an error was recovered, the request was answered while s
\* was waiting for it, and s has completed.
C16_Witness ==
    /\ HasShutdown
    /\ handler.does = "panic"
    /\ handler.value.t = "error"
    /\ pc = "served"
    /\ ret = handler.value.v
    /\ sd = "done"

\* "<status> <status text>"
StatusLine(s) == ToString(s) \o " " \o StatusText(s)

\* Whether str starts with prefix.
HasPrefix(str, prefix) ==
    Len(str) >= Len(prefix) /\ SubSeq(str, 1, Len(prefix)) = prefix

\* The error is of one of the package's status-carrying types, and Error()
\* returns: no wrappedError in it holds a nil inner error.
HasStatusText(e) ==
    /\ e # nil
    /\ Top(e).kind \in {"httpError", "wrappedError", "publicError"}
    /\ e[Len(e)].kind # "wrappedError"

\* C17: the text of a status-carrying error starts with "<status> <status
\* text>"; a bare status value has exactly that text; Wrap(c, s), for an
\* error c, has that text followed by ": " and the text of c; a public
\* error has that text, followed by ": " and the message exactly when the
\* message is non-empty.
C17_ErrorText ==
    HasStatusText(err) =>
        /\ HasPrefix(ErrorText(err), StatusLine(Top(err).status))
        /\ last.op = "predefined" => ErrorText(err) = StatusLine(last.status)
        /\ last.op = "Wrap" =>
              ErrorText(err) = StatusLine(last.status) \o ": " \o ErrorText(Tail(err))
        /\ last.op \in {"NewPublic", "PublicErrorf"} =>
              /\ last.msg # "" => ErrorText(err) = StatusLine(last.status) \o ": " \o last.msg
              /\ last.msg = "" => ErrorText(err) = StatusLine(last.status)

\* A second Wrap around a wrapped public error with a message: the text
\* holds both status lines and the message.
C17_Witness ==
    /\ HasStatusText(err)
    /\ last.op = "Wrap"
    /\ Len(wrapped) = 2
    /\ cause # nil
    /\ Top(cause).kind = "publicError"
    /\ Top(cause).msg # ""
    /\ ErrorText(err) = StatusLine(wrapped[2]) \o ": " \o StatusLine(wrapped[1]) \o ": "
                        \o StatusLine(Top(cause).status) \o ": " \o Top(cause).msg

\* C18: ApplyStandardMiddleware(h, m), where h sets a content type and
\* returns an error without writing and m writes "Did Middleware\n" after
\* calling the next handler, served as an http.Handler: the status of the
\* response is StatusCode of the error, and its body is the body of the
\* error response followed by the middleware's output.
C18_Original ==
    ( /\ pc = "served"
      /\ through[1] = "ApplyStandardMiddleware"
      /\ through[2] = <<"after">>
      /\ handler.does = "return"
      /\ handler.contentType # <<>>
      /\ handler.err # nil ) =>
        /\ w.code = StatusCode(handler.err)
        /\ w.body = DefaultErrorHandler(Serve(handler, NewRecorder).w, handler.err).body
                    \o "Did Middleware\n"

\* What the middleware of ms that writes after its next handler adds.
RECURSIVE Trailing(_)
Trailing(ms) ==
    IF ms = <<>> THEN ""
    ELSE (IF Head(ms) = "after" THEN "Did Middleware\n" ELSE "") \o Trailing(Tail(ms))

\* Every middleware of ms calls its next handler.
AllCallNext(ms) == \A i \in DOMAIN ms : ms[i] # "skip"

\* C19: the handler XApplyStandardMiddleware(h, ms...) returns, called with
\* the parameter p, hands p unchanged to h.Serve, whatever p and whatever
\* the middleware, as long as each calls its next handler: the error
\* returned and what h wrote are those of h.Serve(w, r, p), and the
\* middleware's own output comes after it.
C19_ParameterThreaded ==
    ( /\ pc = "served"
      /\ through[1] = "XApplyStandardMiddleware"
      /\ AllCallNext(through[2])
      /\ ~propagated ) =>
        LET own == XServe(handler, NewRecorder, through[3])
        IN /\ ret = own.err
           /\ HasPrefix(w.calls, own.w.calls)
           /\ HasPrefix(w.body, own.w.body \o Trailing(through[2]))
           /\ handler.does = "hello" =>
                 w.body = "Hello, " \o through[3] \o "\n" \o Trailing(through[2])

\* The test's case: nameHandler behind a middleware that sets a header,
\* called with "Bill".
C19_Witness ==
    /\ pc = "served"
    /\ through = <<"XApplyStandardMiddleware", <<"header">>, "Bill">>
    /\ handler.does = "hello"
    /\ w.code = StatusOK
    /\ w.body = "Hello, Bill\n"

\* The chain of e reaches, through Unwrap, a status value with code c.
RECURSIVE HoldsStatus(_, _)
HoldsStatus(e, c) ==
    /\ e # nil
    /\ \/ Implements(Top(e), "httpStatusCode") /\ Top(e).status = c
       \/ HasUnwrap(Top(e)) /\ HoldsStatus(Tail(e), c)

\* Errors to compare the error built with: bare status values, and errors
\* that are not bare status values: some that carry a status around or
\* beside something else, the error itself and what it wraps.
BareTargets == {predefinedStatus(c) : c \in Statuses}

CarrierTargets(e) ==
    {Wrap(errorString("SOME_ERROR", 1), c) : c \in Statuses}
    \cup {NewPublic(c, "missing 'name' parameter") : c \in Statuses}
    \cup (IF e # nil /\ Len(e) > 1
          THEN {x \in {e, Tail(e)} : Top(x).kind # "httpError"}
          ELSE {})

\* C20, as stated: errors.Is(a, b) is true exactly when both a and b carry
\* a status value somewhere in their chains and the two status codes are
\* equal; a is the error built and b a target, and the other way round.
C20_Original ==
    (pc = "building" /\ err # nil) =>
        \A b \in BareTargets \cup CarrierTargets(err) :
            LET same == CarriesStatus(err) /\ CarriesStatus(b)
                        /\ StatusCode(err) = StatusCode(b)
            IN /\ ErrorsIs(err, b) <=> same
               /\ ErrorsIs(b, err) <=> same

\* b itself is in the chain of a, or b is Panic and a holds a recovered panic.
InChain(a, b) ==
    \E i \in 1..Len(a) :
        \/ GoEqual(SubSeq(a, i, Len(a)), b) = "true"
        \/ a[i].kind = "panicError" /\ GoEqual(b, Panic) = "true"

\* C20, amended: against a bare status value with code c, errors.Is(a, b)
\* is true exactly when a's chain holds a status value with code c, at top
\* level or deeper. The status of the target counts only when the target
\* is a bare status value: a bare status value does not match an error that
\* carries the same status around or beside something else, and an error
\* matches such a target only when the target itself is in its chain.
C20_StatusMatch ==
    (pc = "building" /\ err # nil) =>
        /\ \A c \in Statuses :
              ErrorsIs(err, predefinedStatus(c)) <=> HoldsStatus(err, c)
        /\ \A b \in CarrierTargets(err) :
              /\ ~ErrorsIs(predefinedStatus(StatusCode(b)), b)
              /\ ErrorsIs(err, b) => InChain(err, b)

\* Two Wrap calls with different statuses: the error matches the inner
\* status too, and not the error of the same status built apart from it.
C20_Witness ==
    /\ pc = "building"
    /\ Len(wrapped) = 2
    /\ wrapped[1] # wrapped[2]
    /\ cause # nil
    /\ StatusCode(err) = wrapped[2]
    /\ ErrorsIs(err, predefinedStatus(wrapped[1]))
    /\ ErrorsIs(err, predefinedStatus(wrapped[2]))
    /\ ~ErrorsIs(err, Wrap(errorString("SOME_ERROR", 1), wrapped[2]))
    /\ ~ErrorsIs(predefinedStatus(wrapped[2]), err)

\* Status codes to match against: those handed to the constructors and two
\* that no error built here holds.
MatchedStatuses == Statuses \cup {StatusOK, StatusServiceUnavailable}

\* No node of the chain of e is a status value with code c.
NoStatusNode(e, c) ==
    \A i \in 1..Len(e) : ~(Implements(e[i], "httpStatusCode") /\ e[i].status = c)

\* C21: status matching has no false positives.  An error whose chain holds
\* no status node with code c does not match predefinedStatus(c), and a
\* bare status value does not match a target that is not a bare status
\* value, whether it carries a status or not; neither comparison panics.
C21_NoFalsePositive ==
    pc = "building" =>
        \A c \in MatchedStatuses :
            /\ NoStatusNode(err, c) => ErrorsIs3(err, predefinedStatus(c)) = "false"
            /\ (err = nil \/ Top(err).kind # "httpError") =>
                  ErrorsIs3(predefinedStatus(c), err) = "false"

\* The test's case: a 400 error around a caller's error matches BadRequest,
\* and neither NotFound nor InternalServerError, and BadRequest not it.
C21_Witness ==
    /\ pc = "building"
    /\ last = Call("Wrap", StatusBadRequest, "")
    /\ Len(err) = 2
    /\ Top(cause).kind = "errorString"
    /\ ErrorsIs(err, predefinedStatus(StatusBadRequest))
    /\ ErrorsIs3(err, predefinedStatus(StatusNotFound)) = "false"
    /\ ErrorsIs3(err, predefinedStatus(StatusInternalServerError)) = "false"
    /\ ErrorsIs3(predefinedStatus(StatusBadRequest), err) = "false"

\* The error h.Serve returns for the parameter p.
OwnError(p) == XServe(helloHandler(p), NewRecorder, p).err

\* C22: requests share no mutable state.  Under every interleaving of the
\* requests through one handler built by ApplyStandardMiddleware or
\* XApplyStandardMiddleware, no two requests hold the same carrier, the
\* inner handler of a request is passed the request's own parameter, the
\* carrier of a request whose handler has returned holds that request's
\* error, and each call returns the error of its own inner invocation.
C22_NoSharedState ==
    pc = "concurrent" =>
        \A g \in Requests :
            LET r == goroutines[g]
            IN /\ \A o \in Requests \ {g} :
                     (r.at # "idle" /\ goroutines[o].at # "idle") =>
                         r.carrier # goroutines[o].carrier
               /\ r.at \in {"serving", "stored", "done"} => r.received = r.param
               /\ r.at = "stored" => carriers[r.carrier].err = OwnError(r.param)
               /\ r.at = "done" => r.returned = OwnError(r.param)

\* Two requests were in flight together, the one without a name called
\* first and returning last, and each got its own outcome.
C22_Witness ==
    /\ pc = "concurrent"
    /\ through[1] = "XApplyStandardMiddleware"
    /\ goroutines[1].at = "done"
    /\ goroutines[2].at = "done"
    /\ goroutines[1].param = zeroValue
    /\ goroutines[2].param = "Bill"
    /\ goroutines[1].carrier = 1
    /\ goroutines[2].carrier = 2
    /\ goroutines[1].returned = NewPublic(StatusBadRequest, "missing 'name' parameter")
    /\ goroutines[2].returned = nil

\* The nodes of a chain that hold a status value.
StatusNodes(e) == {i \in DOMAIN e : e[i].kind \in {"httpError", "wrappedError", "publicError"}}

\* C23 (as stated): every status value built by the package is in the range
\* 100 to 599, and WriteHeader always receives a valid status code from
\* DefaultErrorHandler.
C23_Original ==
    /\ \A i \in StatusNodes(err) : err[i].status \in 100..599
    /\ pc # "panicked"
    /\ pc = "responded" => w.code \in 100..599

\* C24 (as stated): the text of New(s, m) with a non-empty m is the status
\* line, a colon and m unchanged, whatever characters m contains.
C24_Original ==
    (pc = "building" /\ last.op = "New" /\ last.msg # "") =>
        ErrorText(err) = StatusLine(last.status) \o ": " \o last.msg


\* The response rw after the output text of the middleware, if any.
Followed(rw, text) == IF text = "" THEN rw ELSE Write(rw, text)

\* The response rw once the caller that received e has answered it.
Rendered(rw, e) == IF e = nil THEN rw ELSE DefaultErrorHandler(rw, e)

\* The middleware of ms outside the last one that does not call its next
\* handler.
Outside(ms) ==
    LET k == CHOOSE i \in DOMAIN ms : ms[i] = "skip" /\ \A j \in DOMAIN ms : ms[j] = "skip" => j <= i
    IN SubSeq(ms, k + 1, Len(ms))

IsTargets(e) ==
    {e, Unwrap(e), Panic, validationErrors, Wrap(validationErrors, StatusBadRequest),
     panicError(validationErrors, ""), New(StatusBadRequest, "no such product ID", 1),
     panicError(NewPublic(StatusNotFound, ""), "")}
    \cup {predefinedStatus(s) : s \in Statuses}

\* The status codes StatusCode returns for the errors built here.
StatusCodes == Statuses \cup {StatusOK, StatusInternalServerError, StatusServiceUnavailable}

C27_Frame ==
    (pc = "served" /\ recovers) =>
        LET inner == Serve(handler, NewRecorder)
            once == PanicMiddleware(inner)
        IN /\ ~inner.panicked => (ret = inner.err /\ once = inner)
           /\ ret = once.err
           /\ PanicMiddleware(once) = once

\* A handler behind PanicMiddleware returned a wrapped error.
C27_Witness ==
    /\ pc = "served"
    /\ recovers
    /\ handler.does = "return"
    /\ handler.err # nil
    /\ Top(handler.err).kind = "wrappedError"
    /\ ret = handler.err
    /\ ~ErrorsIs(ret, Panic)


\* The goroutine of s exists only for a request through a middleware that
\* was given s, whose handler panicked and whose panic has been recovered.
StartedAfterRecovery ==
    sd # "none" =>
        /\ HasShutdown
        /\ handler.does = "panic"
        /\ pc \in {"recovered", "returned", "served"}

\* s is started by the step that recovers the panic, and not before.
StartsOnRecovery ==
    (sd' = "started" /\ sd # "started") =>
        /\ sd = "none"
        /\ pc = "serving"
        /\ pc' = "recovered"
        /\ HasShutdown
        /\ XServe(handler, NewRecorder, through[3]).panicked

\* Within one invocation s is not started again: its goroutine is gone only
\* when the next request is set up.
StartedOnce == (sd # "none" /\ sd' = "none") => (pc = "served" /\ pc' = "building")

\* C28: with a shutdown function s, s is started at most once per
\* invocation of the handler, by the deferred function once it has
\* recovered a panic, and never when s is nil or when the inner handler
\* returns normally, with nil or with an error.
C28_ShutdownOnlyAfterPanic ==
    /\ []StartedAfterRecovery
    /\ [][StartsOnRecovery]_vars
    /\ [][StartedOnce]_vars

\* The deferred function has recovered a panic and started s; the request
\* has not returned yet.
C28_Witness ==
    /\ pc = "recovered"
    /\ through[1] = "PanicMiddleware(h, s)"
    /\ handler.does = "panic"
    /\ sd = "started"
    /\ Top(ret).kind = "errorString"


\* C29: status extraction and status matching agree.  For every error whose
\* chain holds a status value of the package, a recovered panic with such a
\* cause included, errors.Is matches the predefined value of the status that
\* StatusCode extracts.
C29_ExtractionMatches ==
    /\ (pc = "building" /\ StatusNodes(err) # {}) =>
          ErrorsIs(err, predefinedStatus(StatusCode(err)))
    /\ (pc = "served" /\ recovers /\ StatusNodes(ret) # {}) =>
          ErrorsIs(ret, predefinedStatus(StatusCode(ret)))

\* A recovered panic whose value was a wrapped error of a caller.
C29_Witness ==
    /\ pc = "served"
    /\ recovers
    /\ handler.does = "panic"
    /\ Top(ret).kind = "panicError"
    /\ Len(ret) >= 3
    /\ ret[2].kind = "wrappedError"
    /\ ret[3].kind = "netError"
    /\ ret[3].temp
    /\ StatusCode(ret) = StatusNotFound
    /\ ErrorsIs(ret, predefinedStatus(StatusNotFound))
    /\ ~ErrorsIs(ret, predefinedStatus(StatusServiceUnavailable))


\* The handler returned Wrap(NewPublic(a, m), b) with a non-empty m, and the
\* error was answered.
RewrappedPublic ==
    /\ pc = "served"
    /\ handler.does = "return"
    /\ handled = 1
    /\ Len(handler.err) = 2
    /\ handler.err[1].kind = "wrappedError"
    /\ handler.err[2].kind = "publicError"
    /\ handler.err[2].msg # ""

\* C30: status and public message are extracted independently, each from
\* the first error of the chain that offers it.  For Wrap(NewPublic(a, m), b)
\* with a non-empty m, DefaultErrorHandler answers with status b and the
\* message "<status text of b>: m": the status served is b, the public
\* message is still served.
C30_RewrappedPublic ==
    RewrappedPublic =>
        LET b == handler.err[1].status
            m == handler.err[2].msg
            before == Serve(handler, NewRecorder).w
        IN /\ StatusCode(handler.err) = b
           /\ PublicMessage(handler.err) = m
           /\ w.code = b
           /\ w = WriteResponse(WriteHeader(before, b), b, StatusText(b) \o ": " \o m)
           /\ handler.contentType = <<"text/plain">> =>
                 w.body = StatusLine(b) \o ": " \o m \o "\n"

\* A 400 public error wrapped as 404 and answered as text/plain.
C30_Witness ==
    /\ RewrappedPublic
    /\ handler.err = Wrap(NewPublic(StatusBadRequest, "missing 'name' parameter"), StatusNotFound)
    /\ handler.contentType = <<"text/plain">>
    /\ w.code = StatusNotFound
    /\ w.body = "404 Not Found: missing 'name' parameter\n"

====
